---- MODULE Spec2Model ----
(***************************************************************************)
(* A model of the SIM800L driver (Sim800L.cpp): the bounded serial read,   *)
(* the command transactions built on it, the PDU submission guard and the  *)
(* scan of a drained buffer for +CDS: / +CMT: notification frames.         *)
(*                                                                         *)
(* Strings are sequences of characters (one-character TLA+ strings; CR and *)
(* LF are named atoms).  Indices are 0-based as in the Arduino String API. *)
(***************************************************************************)
EXTENDS Integers, Sequences, FiniteSets, TLC

VARIABLES
    \* ---- the engine object (class Sim800L) ----
    started,            \* begin() or begin(baud) has run
    isBusy,             \* the PDU submission guard
    _sleepMode,
    _functionalityMode,
    _buffer,            \* the shared String member
    onNewMessage,       \* handler registered (TRUE) or NULL (FALSE)
    onStatusReport,
    \* ---- the transport ----
    rx,                 \* bytes received from the modem, not yet read
    tx,                 \* what the engine has written, in order
    \* ---- the calling contexts ----
    pc,                 \* where each caller stands
    op,                 \* the operation a caller runs (or ran last)
    ret,                \* the int or bool (0/1) it returned last
    buf,                \* the caller's local String (pinStatus, status, ...)
    reads,              \* bounded reads the current operation has completed
    ncalls,             \* operations a caller has entered
    saved,              \* history: the session flags when the operation was entered
    emitted,            \* history: what the modem has sent
    newMsgs,            \* history: arguments of the onNewMessage invocations
    statusReports,      \* history: arguments of the onStatusReport invocations
    \* ---- one _readSerial(timeout) call, with its clock ----
    now,                \* millis(), a 32-bit counter (scaled: it wraps at MillisWrap)
    timeOld,
    timeout,
    rpc,
    str,
    elapsed,            \* history: true time since the read started
    arrived,            \* history: bytes the transport held or received since the read started
    retArrived,         \* history: arrived, as it was when the drain loop ended
    exitAvail,          \* history: the wait loop ended because available() was true
    \* ---- the scan loops of checkForGsmMessage ----
    dpc,
    indexOfCMT,
    firstIndexHandle,
    lastIndexHandle,
    \* ---- the location members and the results of the reply parsers ----
    _locationCode,
    _longitude,
    _latitude,
    sret,               \* the String an operation returned
    eret,               \* the NetworkRegistrationStatus an operation returned
    feed,               \* the buffers the next bounded reads return, in order
    rtc                 \* <<day, month, year, hour, minute, second>> as RTCtime left them

engineVars == <<started, isBusy, _sleepMode, _functionalityMode, _buffer,
                onNewMessage, onStatusReport>>
callerVars == <<pc, op, ret, buf, reads, ncalls, saved>>
readerVars == <<now, timeOld, timeout, rpc, str, elapsed, arrived, retArrived, exitAvail>>
scanVars == <<dpc, indexOfCMT, firstIndexHandle, lastIndexHandle>>
parseVars == <<_locationCode, _longitude, _latitude, sret, eret, feed, rtc>>
vars == <<engineVars, callerVars, readerVars, scanVars, parseVars, rx, tx,
          emitted, newMsgs, statusReports>>

----------------------------------------------------------------------------
(* Characters and the String operations the driver uses *)

CR == "<CR>"
LF == "<LF>"
CRLF == <<CR, LF>>

Digits == <<"0", "1", "2", "3", "4", "5", "6", "7", "8", "9">>

CharRep(ch, n) == [i \in 1..n |-> ch]

SetMin(S) == CHOOSE m \in S : \A k \in S : m <= k

\* String::indexOf(pattern, fromIndex): the first 0-based index >= from where
\* pattern occurs, -1 when there is none (or from is past the end).
IndexOfFrom(s, pat, from) ==
    LET hits == {i \in from..(Len(s) - Len(pat)) :
                    \A k \in 1..Len(pat) : s[i + k] = pat[k]}
    IN IF from >= Len(s) \/ hits = {} THEN -1 ELSE SetMin(hits)

IndexOf(s, pat) == IndexOfFrom(s, pat, 0)

Contains(s, pat) == IndexOf(s, pat) # -1

\* String::substring(left, right): swaps the ends when left > right, empty when
\* left is past the end, right clipped to the length.
Substring(s, left, right) ==
    LET l == IF left > right THEN right ELSE left
        r0 == IF left > right THEN left ELSE right
        r == IF r0 > Len(s) THEN Len(s) ELSE r0
    IN IF l >= Len(s) THEN <<>> ELSE SubSeq(s, l + 1, r)

SubstringFrom(s, left) == Substring(s, left, Len(s))

DigitValue(ch) == CHOOSE d \in 0..9 : Digits[d + 1] = ch

IsDigit(ch) == \E d \in 1..10 : Digits[d] = ch

RECURSIVE DigitsValue(_, _)
DigitsValue(s, acc) ==
    IF s = <<>> \/ ~IsDigit(Head(s)) THEN acc
    ELSE DigitsValue(Tail(s), 10 * acc + DigitValue(Head(s)))

RECURSIVE SkipSpace(_)
SkipSpace(s) ==
    IF s # <<>> /\ Head(s) \in {" ", CR, LF} THEN SkipSpace(Tail(s)) ELSE s

\* String::toInt(): atol of the text: leading white space skipped, an optional
\* sign, then digits; 0 when no digit follows.
ToInt(s) ==
    LET t == SkipSpace(s)
    IN IF t # <<>> /\ Head(t) = "-" THEN 0 - DigitsValue(Tail(t), 0)
       ELSE IF t # <<>> /\ Head(t) = "+" THEN DigitsValue(Tail(t), 0)
       ELSE DigitsValue(t, 0)

----------------------------------------------------------------------------
(* Bounds of the model *)

MillisWrap == 8      \* stands for 2^32, where the 32-bit millis() wraps
MaxTimeout == 2      \* timeouts in clock ticks
MaxElapsed == 4      \* how long a read is followed
MaxBytes == 3        \* bytes the transport sees during one read
MaxCalls == 2        \* operations entered, all callers together
MaxEmit == 2         \* messages the modem sends
MaxReads == 2        \* bounded reads followed within one operation
MaxPduLen == 23      \* longest PDU submitted
MaxBody == 250       \* length of the long message body

Callers == {1, 2}

----------------------------------------------------------------------------
(* _readSerial(timeout) and _readSerial(): the wait loop and the drain loop *)

ReaderBytes == {"a", LF}

\* the wait loop's exit: while (!available() && !(millis() > timeOld + timeout)).
\* timeOld is uint64_t, so the sum does not wrap; millis() does.
WaitExit(avail, nowv, old, tmo) == avail \/ nowv > old + tmo

\* a drain that stops after the first byte (an if in place of the while)
DrainOnce(avail) == avail /\ str = <<>>

\* the drain loop's test: while (available())
DrainMore(avail) == avail

ReaderKeep == UNCHANGED <<engineVars, callerVars, scanVars, parseVars, tx,
                          emitted, newMsgs, statusReports>>

ReadStart ==
    /\ rpc = "idle"
    /\ \E t \in 1..MaxTimeout : timeout' = t
    /\ timeOld' = now
    /\ rpc' = "wait"
    /\ str' = <<>>
    /\ elapsed' = 0
    /\ arrived' = rx
    /\ retArrived' = <<>>
    /\ exitAvail' = FALSE
    /\ UNCHANGED <<now, rx>>
    /\ ReaderKeep

ClockTick ==
    /\ rpc \in {"wait", "drain"}
    /\ elapsed < MaxElapsed
    /\ now' = (now + 1) % MillisWrap
    /\ elapsed' = elapsed + 1
    /\ UNCHANGED <<timeOld, timeout, rpc, str, arrived, retArrived, exitAvail, rx>>
    /\ ReaderKeep

ByteArrives ==
    /\ rpc # "idle"
    /\ Len(arrived) < MaxBytes
    /\ \E b \in ReaderBytes :
          /\ rx' = Append(rx, b)
          /\ arrived' = Append(arrived, b)
    /\ UNCHANGED <<now, timeOld, timeout, rpc, str, elapsed, retArrived, exitAvail>>
    /\ ReaderKeep

WaitLoopExit ==
    /\ rpc = "wait"
    /\ WaitExit(rx # <<>>, now, timeOld, timeout)
    /\ rpc' = "drain"
    /\ exitAvail' = (rx # <<>>)
    /\ UNCHANGED <<now, timeOld, timeout, str, elapsed, arrived, retArrived, rx>>
    /\ ReaderKeep

DrainLoop ==
    /\ rpc = "drain"
    /\ IF DrainMore(rx # <<>>)
       THEN /\ str' = Append(str, Head(rx))
            /\ rx' = Tail(rx)
            /\ UNCHANGED <<rpc, retArrived>>
       ELSE /\ rpc' = "done"
            /\ retArrived' = arrived
            /\ UNCHANGED <<str, rx>>
    /\ UNCHANGED <<now, timeOld, timeout, elapsed, arrived, exitAvail>>
    /\ ReaderKeep

ReadReturn ==
    /\ rpc = "done"
    /\ rpc' = "idle"
    /\ UNCHANGED <<now, timeOld, timeout, str, elapsed, arrived, retArrived, exitAvail, rx>>
    /\ ReaderKeep

InitIdleEngine ==
    /\ started = FALSE
    /\ isBusy = FALSE
    /\ _sleepMode = FALSE
    /\ _functionalityMode = 1
    /\ _buffer = <<>>
    /\ onNewMessage = TRUE
    /\ onStatusReport = TRUE
    /\ tx = <<>>
    /\ emitted = <<>>
    /\ newMsgs = <<>>
    /\ statusReports = <<>>

InitIdleCallers ==
    /\ pc = [c \in Callers |-> "idle"]
    /\ op = [c \in Callers |-> [name |-> "none", arg |-> <<>>]]
    /\ ret = [c \in Callers |-> 0]
    /\ buf = [c \in Callers |-> <<>>]
    /\ reads = [c \in Callers |-> 0]
    /\ ncalls = [c \in Callers |-> 0]
    /\ saved = [c \in Callers |-> <<FALSE, 1>>]

InitIdleReader ==
    /\ now = 0
    /\ timeOld = 0
    /\ timeout = 1
    /\ rpc = "idle"
    /\ str = <<>>
    /\ elapsed = 0
    /\ arrived = <<>>
    /\ retArrived = <<>>
    /\ exitAvail = FALSE

InitIdleScan ==
    /\ dpc = "idle"
    /\ indexOfCMT = -1
    /\ firstIndexHandle = 0
    /\ lastIndexHandle = 0

\* the String members are empty after construction; nothing is queued
InitIdleParse ==
    /\ _locationCode = <<>>
    /\ _longitude = <<>>
    /\ _latitude = <<>>
    /\ sret = <<>>
    /\ eret = "none"
    /\ rtc = <<0, 0, 0, 0, 0, 0>>
    /\ feed = <<>>

InitReader ==
    /\ InitIdleEngine
    /\ InitIdleCallers
    /\ InitIdleScan
    /\ InitIdleParse
    /\ rx = <<>>
    /\ now \in 0..(MillisWrap - 1)
    /\ timeOld = 0
    /\ timeout = 1
    /\ rpc = "idle"
    /\ str = <<>>
    /\ elapsed = 0
    /\ arrived = <<>>
    /\ retArrived = <<>>
    /\ exitAvail = FALSE

NextReader ==
    \/ ReadStart
    \/ ClockTick
    \/ ByteArrives
    \/ WaitLoopExit
    \/ DrainLoop
    \/ ReadReturn

SpecReader == InitReader /\ [][NextReader]_vars

\* C4 (as claimed): if the transport never reports an available byte,
\* _readSerial(timeout) returns an empty buffer, no earlier than the deadline
\* timeOld + timeout and at the first poll after the clock has passed it: a
\* read still in its wait loop once the deadline has passed is about to leave it.
C4_SilentReadReturnsAtDeadline ==
    arrived = <<>> =>
        /\ (rpc = "wait" /\ elapsed > timeout) => WaitExit(FALSE, now, timeOld, timeout)
        /\ rpc \in {"drain", "done"} => (elapsed > timeout /\ str = <<>>)

\* C5: once available() is true, _readSerial consumes the available bytes in
\* arrival order until available() is false and returns at once with a
\* non-empty buffer (no byte is consumed while it still waits, no terminator
\* or deadline is waited for); bytes arriving later stay in the transport.
C5_DrainsAvailableAndReturns ==
    /\ rpc = "wait" => str = <<>>
    /\ str \o rx = arrived
    /\ rpc = "done" => (str = retArrived /\ (exitAvail => str # <<>>))

\* C5's case: a read that returned two bytes before its deadline, a partial
\* line, with a later byte left in the transport.
C5_Witness ==
    /\ rpc = "done"
    /\ exitAvail
    /\ Len(str) >= 2
    /\ \A i \in 1..Len(str) : str[i] # LF
    /\ rx # <<>>
    /\ elapsed <= timeout

----------------------------------------------------------------------------
(* checkForGsmMessage: the scan of _buffer for +CDS: and +CMT: frames *)

CDS == <<"+", "C", "D", "S", ":">>
CMT == <<"+", "C", "M", "T", ":">>

\* _buffer[i], 0-based
At(b, i) == b[i + 1]

\* the +CDS: loop: for (i = indexOfCds; i < length; i++), CR LF only; the first
\* line break sets firstIndexHandle, every later one reports
\* substring(firstIndexHandle, i - 1).  st = [fih, calls].
RECURSIVE CdsFor(_, _, _, _)
CdsFor(b, i, st, handler) ==
    IF i >= Len(b) THEN st
    ELSE IF i > 0 /\ At(b, i - 1) = CR /\ At(b, i) = LF
    THEN IF st.fih = 0
         THEN CdsFor(b, i + 1, [st EXCEPT !.fih = i + 1], handler)
         ELSE IF st.fih > 0 /\ i - 1 > st.fih /\ handler
              THEN CdsFor(b, i + 1,
                          [st EXCEPT !.calls = Append(@, Substring(b, st.fih, i - 1))],
                          handler)
              ELSE CdsFor(b, i + 1, st, handler)
    ELSE CdsFor(b, i + 1, st, handler)

\* the onStatusReport invocations of one checkForGsmMessage, in order
CdsScan(b, handler) ==
    LET indexOfCds == IndexOf(b, CDS)
    IN IF indexOfCds # -1
       THEN CdsFor(b, indexOfCds, [fih |-> 0, calls |-> <<>>], handler).calls
       ELSE <<>>

\* the line-break test of the +CMT: loop:
\* i>0 && (b[i-1]=='\r' && b[i]=='\n') || (b[i]=='\n')
CmtLineBreak(b, i) ==
    (i > 0 /\ At(b, i - 1) = CR /\ At(b, i) = LF) \/ At(b, i) = LF

\* one run of the inner for loop, from i to the end of the buffer.
\* st = [idx, fih, lih, calls]: indexOfCMT, firstIndexHandle, lastIndexHandle
\* and the onNewMessage invocations made.
RECURSIVE CmtFor(_, _, _, _)
CmtFor(b, i, st, handler) ==
    IF i >= Len(b) THEN st
    ELSE IF CmtLineBreak(b, i)
    THEN IF st.fih = 0
         THEN CmtFor(b, i + 1, [st EXCEPT !.fih = i + 1], handler)
         ELSE LET lih == IF At(b, i - 1) = CR THEN i - 1 ELSE i
              IN IF st.fih > 0 /\ lih > st.fih
                 THEN CmtFor(b, i + 1,
                             [idx |-> IndexOfFrom(b, CMT, lih),
                              fih |-> 0,
                              lih |-> lih,
                              calls |-> IF handler
                                        THEN Append(st.calls, Substring(b, st.fih, lih))
                                        ELSE st.calls],
                             handler)
                 ELSE CmtFor(b, i + 1, [st EXCEPT !.lih = lih], handler)
    ELSE CmtFor(b, i + 1, st, handler)

\* one iteration of while (indexOfCMT != -1)
CmtPass(b, st, handler) == CmtFor(b, st.idx, st, handler)

\* the whole while loop.  An iteration that leaves indexOfCMT,
\* firstIndexHandle and lastIndexHandle as they were repeats for ever: hang.
RECURSIVE CmtWhile(_, _, _)
CmtWhile(b, st, handler) ==
    IF st.idx = -1 THEN [calls |-> st.calls, hang |-> FALSE]
    ELSE LET n == CmtPass(b, st, handler)
         IN IF <<n.idx, n.fih, n.lih>> = <<st.idx, st.fih, st.lih>>
            THEN [calls |-> n.calls, hang |-> TRUE]
            ELSE CmtWhile(b, n, handler)

\* the onNewMessage invocations of one checkForGsmMessage, and whether it returns
CmtScan(b, handler) ==
    CmtWhile(b, [idx |-> IndexOf(b, CMT), fih |-> 0, lih |-> 0, calls |-> <<>>],
             handler)

(* The buffers scanned: up to two frames, complete or cut short, with what a
   modem puts around them. *)
Payloads == {<<"P">>, <<"Q", "R">>}
LineBreaks == {CRLF, <<LF>>}
Frame(m, nl, p) == m \o <<"h">> \o nl \o p \o nl
FullFrames == {Frame(m, nl, p) : m \in {CMT, CDS}, nl \in LineBreaks, p \in Payloads}
CutFrames == {CMT \o <<"h">> \o CRLF, CMT \o <<"h">> \o CRLF \o <<"P">>,
              CMT \o <<"h">> \o CRLF \o CRLF}
FrameSlots == FullFrames \cup CutFrames \cup {<<>>}
Around == {<<>>, CRLF, <<"O", "K">> \o CRLF}
ScanBuffers ==
    {pre \o f1 \o sep \o f2 \o post :
        pre \in {<<>>, CRLF}, f1 \in FrameSlots, sep \in {<<>>, CRLF},
        f2 \in FrameSlots, post \in Around}

ScanKeep == UNCHANGED <<started, isBusy, _sleepMode, _functionalityMode,
                        onNewMessage, onStatusReport, callerVars, readerVars,
                        parseVars, rx, tx, emitted>>

\* lines 735-783: the +CDS: block, then the reset before the +CMT: loop
ScanCds ==
    /\ dpc = "cds"
    /\ statusReports' = statusReports \o CdsScan(_buffer, onStatusReport)
    /\ firstIndexHandle' = 0
    /\ lastIndexHandle' = 0
    /\ indexOfCMT' = IndexOf(_buffer, CMT)
    /\ dpc' = "cmt"
    /\ UNCHANGED <<_buffer, newMsgs>>
    /\ ScanKeep

\* lines 785-830: one iteration of the while loop
ScanCmtPass ==
    /\ dpc = "cmt"
    /\ indexOfCMT # -1
    /\ LET n == CmtPass(_buffer,
                        [idx |-> indexOfCMT, fih |-> firstIndexHandle,
                         lih |-> lastIndexHandle, calls |-> <<>>],
                        onNewMessage)
       IN /\ indexOfCMT' = n.idx
          /\ firstIndexHandle' = n.fih
          /\ lastIndexHandle' = n.lih
          /\ newMsgs' = newMsgs \o n.calls
    /\ UNCHANGED <<dpc, _buffer, statusReports>>
    /\ ScanKeep

ScanReturn ==
    /\ dpc = "cmt"
    /\ indexOfCMT = -1
    /\ dpc' = "done"
    /\ UNCHANGED <<indexOfCMT, firstIndexHandle, lastIndexHandle, _buffer,
                   newMsgs, statusReports>>
    /\ ScanKeep

InitScan ==
    /\ InitIdleCallers
    /\ InitIdleReader
    /\ InitIdleParse
    /\ started = TRUE
    /\ isBusy = FALSE
    /\ _sleepMode = FALSE
    /\ _functionalityMode = 1
    /\ onNewMessage \in BOOLEAN
    /\ onStatusReport \in BOOLEAN
    /\ rx = <<>>
    /\ tx = <<>>
    /\ emitted = <<>>
    /\ newMsgs = <<>>
    /\ statusReports = <<>>
    /\ _buffer \in ScanBuffers
    /\ dpc = "cds"
    /\ indexOfCMT = -1
    /\ firstIndexHandle = 0
    /\ lastIndexHandle = 0

NextScan ==
    \/ ScanCds
    \/ ScanCmtPass
    \/ ScanReturn

SpecScan == InitScan /\ [][NextScan]_vars

(* What the claims call a frame's payload: the text between the line break
   ending the header line that holds the marker and the next line break. *)
MarkerPositions(b, m) ==
    {i \in 0..(Len(b) - Len(m)) : \A k \in 1..Len(m) : b[i + k] = m[k]}

LfPositionsFrom(b, from) == {i \in from..(Len(b) - 1) : At(b, i) = LF}

HasPayloadLine(b, p) ==
    /\ LfPositionsFrom(b, p) # {}
    /\ LfPositionsFrom(b, SetMin(LfPositionsFrom(b, p)) + 1) # {}

PayloadOf(b, p) ==
    LET first == SetMin(LfPositionsFrom(b, p)) + 1
        last == SetMin(LfPositionsFrom(b, first))
        end == IF last > first /\ At(b, last - 1) = CR THEN last - 1 ELSE last
    IN SubSeq(b, first + 1, end)

RECURSIVE PayloadsInOrder(_, _)
PayloadsInOrder(b, ps) ==
    IF ps = {} THEN <<>>
    ELSE <<PayloadOf(b, SetMin(ps))>> \o PayloadsInOrder(b, ps \ {SetMin(ps)})

FramePayloads(b, m) ==
    PayloadsInOrder(b, {p \in MarkerPositions(b, m) : HasPayloadLine(b, p)})

\* C8 (as claimed): a scanned buffer that contains two +CMT: frames, each a
\* header line and a payload line, has onNewMessage invoked exactly twice, in
\* order, each time with the frame's payload.
C8_TwoCmtFramesDispatchedInOrder ==
    (/\ dpc = "done"
     /\ onNewMessage
     /\ Cardinality(MarkerPositions(_buffer, CMT)) = 2
     /\ Len(FramePayloads(_buffer, CMT)) = 2
     /\ \A k \in 1..2 : FramePayloads(_buffer, CMT)[k] # <<>>)
    => newMsgs = FramePayloads(_buffer, CMT)

\* C9 (as claimed): every +CDS: marker of a scanned buffer causes exactly one
\* onStatusReport invocation, in order, with that frame's payload, and nothing
\* else is passed to onStatusReport.
C9_EachCdsFrameReportedOnce ==
    (dpc \in {"cmt", "done"} /\ onStatusReport)
    => statusReports = FramePayloads(_buffer, CDS)

----------------------------------------------------------------------------
(* The engine's operations.  Control changes hands only where an operation
   polls the transport (single logical thread): each step below runs from one
   bounded read's return to the next bounded read.  A bounded read returns
   what the transport holds when it returns, empty at its deadline; its wait
   and drain loops are followed step by step in SpecReader. *)

UIntWrap == 65536

\* int pduLength = (pdu.length() / 2) - 1: unsigned arithmetic, then to int
PduLength(pdu) ==
    LET u == ((Len(pdu) \div 2) - 1) % UIntWrap
    IN IF u >= UIntWrap \div 2 THEN u - UIntWrap ELSE u

\* the precondition check without its isBusy test / without its length test
LengthOnly(pduLength, busy) == pduLength < 10

BusyOnly(pduLength, busy) == busy

\* if (pduLength < 10 || isBusy) return -4;
Rejected(pduLength, busy) == pduLength < 10 \/ busy

PduSet == {CharRep("0", n) : n \in {0, 21, 22, MaxPduLen}}

OKr == <<"O", "K">> \o CRLF
ERRORr == <<"E", "R", "R", "O", "R">> \o CRLF
CMGSr == <<"+", "C", "M", "G", "S", ":", " ", "5">> \o CRLF
CMTf == CRLF \o CMT \o <<"h">> \o CRLF \o <<"P">> \o CRLF
CDSf == CRLF \o CDS \o <<"h">> \o CRLF \o <<"P">> \o CRLF

ModemMessages == {"OK", "ERROR", "CMGS", "CMT", "CDS"}

Chunk(k) ==
    CASE k = "OK" -> OKr
      [] k = "ERROR" -> ERRORr
      [] k = "CMGS" -> CMGSr
      [] k = "CMT" -> CMTf
      [] k = "CDS" -> CDSf

TotalCalls == ncalls[1] + ncalls[2]

CanEnter(c) == started /\ pc[c] = "idle" /\ TotalCalls < MaxCalls

\* a write that never reaches the transport
WrittenNothing(c, text, arg) == tx

\* SoftwareSerial::print / write: the transport receives the text next
Written(c, text, arg) == Append(tx, [by |-> c, text |-> text, arg |-> arg])

BoolInt(b) == IF b THEN 1 ELSE 0

\* a caller enters operation name(arg)
Enter(c, name, arg) ==
    /\ op' = [op EXCEPT ![c] = [name |-> name, arg |-> arg]]
    /\ ncalls' = [ncalls EXCEPT ![c] = @ + 1]
    /\ saved' = [saved EXCEPT ![c] = <<_sleepMode, _functionalityMode>>]

ScanIdle == UNCHANGED <<scanVars, readerVars, parseVars>>

\* begin(): lines 90-105
Begin ==
    /\ ~started
    /\ started' = TRUE
    /\ isBusy' = FALSE
    /\ _sleepMode' = FALSE
    /\ _functionalityMode' = 1
    /\ UNCHANGED <<_buffer, onNewMessage, onStatusReport, callerVars, rx, tx,
                   emitted, newMsgs, statusReports>>
    /\ ScanIdle

\* begin(baud): lines 107-121; isBusy is not assigned
BeginBaud ==
    /\ ~started
    /\ started' = TRUE
    /\ _sleepMode' = FALSE
    /\ _functionalityMode' = 1
    /\ UNCHANGED <<isBusy, _buffer, onNewMessage, onStatusReport, callerVars,
                   rx, tx, emitted, newMsgs, statusReports>>
    /\ ScanIdle

\* the modem sends a reply or an unsolicited frame
ModemEmit ==
    /\ started
    /\ Len(emitted) < MaxEmit
    /\ \E k \in ModemMessages :
          /\ rx' = rx \o Chunk(k)
          /\ emitted' = Append(emitted, k)
    /\ UNCHANGED <<engineVars, callerVars, tx, newMsgs, statusReports>>
    /\ ScanIdle

\* sendSms(pdu), lines 610-621: the precondition check, then the guard and the header
SendSmsEnter(c, pdu) ==
    /\ CanEnter(c)
    /\ Enter(c, "sendSms", pdu)
    /\ buf' = [buf EXCEPT ![c] = <<>>]
    /\ reads' = [reads EXCEPT ![c] = 0]
    /\ IF Rejected(PduLength(pdu), isBusy)
       THEN /\ ret' = [ret EXCEPT ![c] = -4]
            /\ UNCHANGED <<pc, isBusy, tx>>
       ELSE /\ isBusy' = TRUE
            /\ tx' = Written(c, "AT+CMGS=", <<PduLength(pdu)>>)
            /\ pc' = [pc EXCEPT ![c] = "sms_r1"]
            /\ UNCHANGED ret
    /\ UNCHANGED <<started, _sleepMode, _functionalityMode, _buffer, onNewMessage,
                   onStatusReport, rx, emitted, newMsgs, statusReports>>
    /\ ScanIdle

\* lines 622-623: _buffer = _readSerial(100); print(pdu)
SendSmsRead1(c) ==
    /\ pc[c] = "sms_r1"
    /\ _buffer' = rx
    /\ rx' = <<>>
    /\ reads' = [reads EXCEPT ![c] = @ + 1]
    /\ tx' = Written(c, "pdu", op[c].arg)
    /\ pc' = [pc EXCEPT ![c] = "sms_r2"]
    /\ UNCHANGED <<started, isBusy, _sleepMode, _functionalityMode, onNewMessage,
                   onStatusReport, op, ret, buf, ncalls, saved, emitted, newMsgs,
                   statusReports>>
    /\ ScanIdle

\* lines 624-625: _buffer = _readSerial(100); write(0x1a)
SendSmsRead2(c) ==
    /\ pc[c] = "sms_r2"
    /\ _buffer' = rx
    /\ rx' = <<>>
    /\ reads' = [reads EXCEPT ![c] = @ + 1]
    /\ tx' = Written(c, "0x1A", <<>>)
    /\ pc' = [pc EXCEPT ![c] = "sms_r3"]
    /\ UNCHANGED <<started, isBusy, _sleepMode, _functionalityMode, onNewMessage,
                   onStatusReport, op, ret, buf, ncalls, saved, emitted, newMsgs,
                   statusReports>>
    /\ ScanIdle

\* lines 629-648: the result read from the final buffer
SmsResult(b) ==
    IF IndexOf(b, <<"E", "R", "R", "O", "R">>) # -1 THEN -2
    ELSE IF IndexOf(b, <<"C", "M", "G", "S">>) < 0 THEN -3
    ELSE IF IndexOf(b, <<":">>) = -1 THEN -1
    ELSE ToInt(SubstringFrom(b, IndexOf(b, <<":">>) + 1))

\* lines 626-648: _buffer = _readSerial(60000); classify; isBusy = false; return
SendSmsRead3(c) ==
    /\ pc[c] = "sms_r3"
    /\ _buffer' = rx
    /\ rx' = <<>>
    /\ reads' = [reads EXCEPT ![c] = @ + 1]
    /\ isBusy' = FALSE
    /\ ret' = [ret EXCEPT ![c] = SmsResult(rx)]
    /\ pc' = [pc EXCEPT ![c] = "idle"]
    /\ UNCHANGED <<started, _sleepMode, _functionalityMode, onNewMessage,
                   onStatusReport, op, buf, ncalls, saved, tx, emitted, newMsgs,
                   statusReports>>
    /\ ScanIdle

\* setSleepMode(state), lines 131-134: the flag is stored, then the command written
SetSleepModeEnter(c, state) ==
    /\ CanEnter(c)
    /\ Enter(c, "setSleepMode", <<BoolInt(state)>>)
    /\ _sleepMode' = state
    /\ tx' = Written(c, "AT+CSCLK=", <<BoolInt(state)>>)
    /\ buf' = [buf EXCEPT ![c] = <<>>]
    /\ reads' = [reads EXCEPT ![c] = 0]
    /\ pc' = [pc EXCEPT ![c] = "sleep_r"]
    /\ UNCHANGED <<started, isBusy, _functionalityMode, _buffer, onNewMessage,
                   onStatusReport, ret, rx, emitted, newMsgs, statusReports>>
    /\ ScanIdle

\* lines 136-140: true when the reply holds "ER"
SetSleepModeRead(c) ==
    /\ pc[c] = "sleep_r"
    /\ buf' = [buf EXCEPT ![c] = rx]
    /\ rx' = <<>>
    /\ reads' = [reads EXCEPT ![c] = @ + 1]
    /\ ret' = [ret EXCEPT ![c] = BoolInt(IndexOf(rx, <<"E", "R">>) # -1)]
    /\ pc' = [pc EXCEPT ![c] = "idle"]
    /\ UNCHANGED <<engineVars, op, ncalls, saved, tx, emitted, newMsgs, statusReports>>
    /\ ScanIdle

\* setFunctionalityMode(fun), lines 158-174 and 184
SetFunctionalityModeEnter(c, fun) ==
    /\ CanEnter(c)
    /\ Enter(c, "setFunctionalityMode", <<fun>>)
    /\ buf' = [buf EXCEPT ![c] = <<>>]
    /\ reads' = [reads EXCEPT ![c] = 0]
    /\ IF fun = 0 \/ fun = 1 \/ fun = 4
       THEN /\ _functionalityMode' = fun
            /\ tx' = Written(c, "AT+CFUN=", <<fun>>)
            /\ pc' = [pc EXCEPT ![c] = "fun_r"]
            /\ UNCHANGED ret
       ELSE /\ ret' = [ret EXCEPT ![c] = 0]
            /\ UNCHANGED <<_functionalityMode, tx, pc>>
    /\ UNCHANGED <<started, isBusy, _sleepMode, _buffer, onNewMessage,
                   onStatusReport, rx, emitted, newMsgs, statusReports>>
    /\ ScanIdle

\* lines 176-180
SetFunctionalityModeRead(c) ==
    /\ pc[c] = "fun_r"
    /\ buf' = [buf EXCEPT ![c] = rx]
    /\ rx' = <<>>
    /\ reads' = [reads EXCEPT ![c] = @ + 1]
    /\ ret' = [ret EXCEPT ![c] = BoolInt(IndexOf(rx, <<"E", "R">>) # -1)]
    /\ pc' = [pc EXCEPT ![c] = "idle"]
    /\ UNCHANGED <<engineVars, op, ncalls, saved, tx, emitted, newMsgs, statusReports>>
    /\ ScanIdle

PinValue == <<"1", "2", "3", "4">>

\* setPIN(pin), lines 194-205
SetPINEnter(c) ==
    /\ CanEnter(c)
    /\ Enter(c, "setPIN", PinValue)
    /\ tx' = Written(c, "AT+CPIN=", PinValue)
    /\ buf' = [buf EXCEPT ![c] = <<>>]
    /\ reads' = [reads EXCEPT ![c] = 0]
    /\ pc' = [pc EXCEPT ![c] = "setpin_r"]
    /\ UNCHANGED <<engineVars, ret, rx, emitted, newMsgs, statusReports>>
    /\ ScanIdle

\* lines 206-219: one iteration of while (indexOfAnswer == -1); indexOfAnswer
\* is never assigned, the loop ends only through a return
SetPINRead(c) ==
    /\ pc[c] = "setpin_r"
    /\ reads[c] < MaxReads
    /\ buf' = [buf EXCEPT ![c] = rx]
    /\ rx' = <<>>
    /\ reads' = [reads EXCEPT ![c] = @ + 1]
    /\ IF IndexOf(rx, <<"E", "R", "R">>) # -1
       THEN /\ ret' = [ret EXCEPT ![c] = 0]
            /\ pc' = [pc EXCEPT ![c] = "idle"]
       ELSE IF IndexOf(rx, <<"O", "K">>) # -1
       THEN /\ ret' = [ret EXCEPT ![c] = 1]
            /\ pc' = [pc EXCEPT ![c] = "idle"]
       ELSE UNCHANGED <<ret, pc>>
    /\ UNCHANGED <<engineVars, op, ncalls, saved, tx, emitted, newMsgs, statusReports>>
    /\ ScanIdle

\* PINIsReady(), lines 228-237
PINIsReadyEnter(c) ==
    /\ CanEnter(c)
    /\ Enter(c, "PINIsReady", <<>>)
    /\ tx' = Written(c, "AT+CPIN?", <<>>)
    /\ buf' = [buf EXCEPT ![c] = <<>>]
    /\ reads' = [reads EXCEPT ![c] = 0]
    /\ pc' = [pc EXCEPT ![c] = "pinrdy_r"]
    /\ UNCHANGED <<engineVars, ret, rx, emitted, newMsgs, statusReports>>
    /\ ScanIdle

\* lines 238-253: one iteration of the loop; it ends once "ERR" or "OK" is found
PINIsReadyRead(c) ==
    /\ pc[c] = "pinrdy_r"
    /\ reads[c] < MaxReads
    /\ buf' = [buf EXCEPT ![c] = rx]
    /\ rx' = <<>>
    /\ reads' = [reads EXCEPT ![c] = @ + 1]
    /\ IF IndexOf(rx, <<"E", "R", "R">>) # -1 \/ IndexOf(rx, <<"O", "K">>) # -1
       THEN /\ ret' = [ret EXCEPT ![c] =
                         BoolInt(IndexOf(rx, <<"C", "P", "I", "N", ":", " ",
                                               "R", "E", "A", "D", "Y">>) # -1)]
            /\ pc' = [pc EXCEPT ![c] = "idle"]
       ELSE UNCHANGED <<ret, pc>>
    /\ UNCHANGED <<engineVars, op, ncalls, saved, tx, emitted, newMsgs, statusReports>>
    /\ ScanIdle

\* checkForGsmMessage(), lines 722-727: _buffer = _readSerial(100); empty: return
CheckForGsmMessageRead1(c) ==
    /\ CanEnter(c)
    /\ Enter(c, "checkForGsmMessage", <<>>)
    /\ _buffer' = rx
    /\ rx' = <<>>
    /\ buf' = [buf EXCEPT ![c] = <<>>]
    /\ reads' = [reads EXCEPT ![c] = 1]
    /\ pc' = [pc EXCEPT ![c] = IF rx = <<>> THEN "idle" ELSE "chk_r2"]
    /\ UNCHANGED <<started, isBusy, _sleepMode, _functionalityMode, onNewMessage,
                   onStatusReport, ret, tx, emitted, newMsgs, statusReports>>
    /\ ScanIdle

\* lines 728-830: _buffer += _readSerial(5000); the +CDS: block; the +CMT: loop
CheckForGsmMessageRead2(c) ==
    /\ pc[c] = "chk_r2"
    /\ LET b == _buffer \o rx
           r == CmtScan(b, onNewMessage)
       IN /\ _buffer' = b
          /\ statusReports' = statusReports \o CdsScan(b, onStatusReport)
          /\ newMsgs' = newMsgs \o r.calls
          /\ pc' = [pc EXCEPT ![c] = IF r.hang THEN "hung" ELSE "idle"]
    /\ rx' = <<>>
    /\ reads' = [reads EXCEPT ![c] = @ + 1]
    /\ UNCHANGED <<started, isBusy, _sleepMode, _functionalityMode, onNewMessage,
                   onStatusReport, op, ret, buf, ncalls, saved, tx, emitted>>
    /\ ScanIdle

\* The state after construction: no constructor assigns isBusy, _sleepMode or
\* _functionalityMode; the latter two are assigned by both begin overloads
\* before anything reads them.
Init ==
    /\ InitIdleCallers
    /\ InitIdleReader
    /\ InitIdleScan
    /\ InitIdleParse
    /\ started = FALSE
    /\ isBusy \in BOOLEAN
    /\ _sleepMode = FALSE
    /\ _functionalityMode = 1
    /\ _buffer = <<>>
    /\ onNewMessage = TRUE
    /\ onStatusReport = TRUE
    /\ rx = <<>>
    /\ tx = <<>>
    /\ emitted = <<>>
    /\ newMsgs = <<>>
    /\ statusReports = <<>>

Next ==
    \/ Begin
    \/ BeginBaud
    \/ ModemEmit
    \/ \E c \in Callers, pdu \in PduSet : SendSmsEnter(c, pdu)
    \/ \E c \in Callers : SendSmsRead1(c)
    \/ \E c \in Callers : SendSmsRead2(c)
    \/ \E c \in Callers : SendSmsRead3(c)
    \/ \E c \in Callers, state \in BOOLEAN : SetSleepModeEnter(c, state)
    \/ \E c \in Callers : SetSleepModeRead(c)
    \/ \E c \in Callers, fun \in {0, 1, 2, 4} : SetFunctionalityModeEnter(c, fun)
    \/ \E c \in Callers : SetFunctionalityModeRead(c)
    \/ \E c \in Callers : SetPINEnter(c)
    \/ \E c \in Callers : SetPINRead(c)
    \/ \E c \in Callers : PINIsReadyEnter(c)
    \/ \E c \in Callers : PINIsReadyRead(c)
    \/ \E c \in Callers : CheckForGsmMessageRead1(c)
    \/ \E c \in Callers : CheckForGsmMessageRead2(c)

Spec == Init /\ [][Next]_vars

\* the PDU submission alone, from both callers, with start-up and the modem
NextSubmit ==
    \/ Begin
    \/ BeginBaud
    \/ ModemEmit
    \/ \E c \in Callers, pdu \in PduSet : SendSmsEnter(c, pdu)
    \/ \E c \in Callers : SendSmsRead1(c)
    \/ \E c \in Callers : SendSmsRead2(c)
    \/ \E c \in Callers : SendSmsRead3(c)

SpecSubmit == Init /\ [][NextSubmit]_vars

----------------------------------------------------------------------------
(* The claims about the operations *)

SmsPcs == {"sms_r1", "sms_r2", "sms_r3"}
SmsParts == {"AT+CMGS=", "pdu", "0x1A"}

\* in this step caller c enters an operation / returns from one
Entered(c) == ncalls'[c] = ncalls[c] + 1
Returned(c) == pc'[c] = "idle" /\ (pc[c] # "idle" \/ Entered(c))

Count(seq, k) == Cardinality({i \in 1..Len(seq) : seq[i] = k})

\* between a caller's header and its terminator no other caller writes a part
\* of a submission
NoInterleave(t) ==
    \A i, j \in 1..Len(t) :
        (i < j /\ t[i].text = "AT+CMGS=" /\ t[j].by # t[i].by /\ t[j].text \in SmsParts)
        => \E m \in (i + 1)..(j - 1) : t[m].by = t[i].by /\ t[m].text = "0x1A"

\* C1 (as claimed): whatever a completed sendSms(pdu) returns, the reference,
\* -1, -2, -3 or the early rejection -4, isBusy is false when it returns.
C1_GuardFreeAfterEveryCall ==
    [][\A c \in Callers :
          (Returned(c) /\ op'[c].name = "sendSms") => ~isBusy']_vars

\* C2: a sendSms(pdu) whose encoded length (length/2)-1 is below 10, the empty
\* string included, returns -4 in its first step and writes nothing, reads
\* nothing and leaves isBusy as it was.
C2_ShortPduRejectedUntouched ==
    [][\A c \in Callers :
          (/\ Entered(c)
           /\ op'[c].name = "sendSms"
           /\ (Len(op'[c].arg) \div 2) - 1 < 10)
          => /\ ret'[c] = -4
             /\ pc'[c] = "idle"
             /\ tx' = tx
             /\ rx' = rx
             /\ reads'[c] = 0
             /\ isBusy' = isBusy]_vars

\* C2's case: sendSms("") has returned -4 with the guard free and nothing written.
C2_Witness ==
    \E c \in Callers :
        /\ op[c].name = "sendSms"
        /\ op[c].arg = <<>>
        /\ pc[c] = "idle"
        /\ ret[c] = -4
        /\ ~isBusy
        /\ tx = <<>>

\* C3: a sendSms entered while another caller's submission is in flight (isBusy
\* true) returns -4 whatever its PDU, writes and reads nothing and leaves the
\* guard and the other submission as they were; a submission in flight holds
\* the guard, and the parts of two submissions are never interleaved.
C3_NestedSubmissionRejected ==
    [][/\ \A c \in Callers :
             (/\ Entered(c)
              /\ op'[c].name = "sendSms"
              /\ isBusy
              /\ \E d \in Callers \ {c} : pc[d] \in SmsPcs)
             => /\ ret'[c] = -4
                /\ pc'[c] = "idle"
                /\ tx' = tx
                /\ rx' = rx
                /\ isBusy'
                /\ \A d \in Callers \ {c} : pc'[d] = pc[d]
       /\ \A d \in Callers : pc'[d] \in SmsPcs => isBusy'
       /\ NoInterleave(tx')]_vars

\* C3's case: a valid-length PDU was rejected while the other caller's
\* submission, header and payload written, still awaits its acknowledgment.
C3_Witness ==
    \E c \in Callers : \E d \in Callers \ {c} :
        /\ pc[d] = "sms_r3"
        /\ op[c].name = "sendSms"
        /\ Len(op[c].arg) >= 22
        /\ pc[c] = "idle"
        /\ ret[c] = -4
        /\ isBusy

\* C6 (as claimed): setPIN and PINIsReady return after their bounded 10 s read,
\* also when the reply holds neither "OK" nor "ERR" or never comes.
C6_PinOpsReturnAfterOneRead ==
    \A c \in Callers :
        (op[c].name \in {"setPIN", "PINIsReady"} /\ reads[c] >= 1) => pc[c] = "idle"

\* C7 (as claimed): when setSleepMode or setFunctionalityMode got an error
\* reply ("ER") or no reply, getSleepMode() and getFunctionalityMode() return
\* what they returned before the call (no other caller being active).
C7_FlagsKeptOnFailure ==
    \A c \in Callers :
        (/\ op[c].name \in {"setSleepMode", "setFunctionalityMode"}
         /\ pc[c] = "idle"
         /\ \A d \in Callers \ {c} : ncalls[d] = 0
         /\ (buf[c] = <<>> \/ Contains(buf[c], <<"E", "R">>)))
        => <<_sleepMode, _functionalityMode>> = saved[c]

\* C10 (as claimed): every +CMT: and +CDS: frame the modem has delivered is
\* dispatched to its handler, whichever read drained it: once every operation
\* has returned and the transport is empty, no frame is missing.
C10_EveryFrameDispatched ==
    ((\A c \in Callers : pc[c] = "idle") /\ rx = <<>>)
    => /\ Len(newMsgs) >= Count(emitted, "CMT")
       /\ Len(statusReports) >= Count(emitted, "CDS")

\* ---------------------------------------------------------------------------
\* The acknowledgment of a PDU submission (sendSms(pdu), lines 626-650)
\* ---------------------------------------------------------------------------

\* the integer after the colon that follows "CMGS" in b: the message reference
ReferenceAfterCmgs(b) ==
    LET i == IndexOf(b, <<"C", "M", "G", "S">>)
        j == IndexOfFrom(b, <<":">>, i)
    IN IF j = -1 THEN -1 ELSE ToInt(SubstringFrom(b, j + 1))

AckClass(b) ==
    IF Contains(b, <<"E", "R", "R", "O", "R">>) THEN -2
    ELSE IF ~Contains(b, <<"C", "M", "G", "S">>) THEN -3
    ELSE ReferenceAfterCmgs(b)

\* C11 (as claimed): the final read's buffer is classified as -2 when it holds
\* "ERROR", else -3 when it lacks "CMGS", else as the integer after the colon
\* that follows "CMGS", the message reference the modem assigned.
C11_AckClassifiedByCmgsColon ==
    [][\A c \in Callers :
          (pc[c] = "sms_r3" /\ pc'[c] = "idle") => ret'[c] = AckClass(rx)]_vars

----------------------------------------------------------------------------
(* The reply parsers: registrationStatus, getOperator, calculateLocation,   *)
(* readSms.  Each runs from its command to its return; the buffers its      *)
(* bounded reads return are taken from feed, the empty buffer at a deadline *)

\* _readSerial(...) of a parser: the next queued buffer, "" when none arrives
NextRead(f) == IF f = <<>> THEN <<>> ELSE Head(f)
RestFeed(f) == IF f = <<>> THEN <<>> ELSE Tail(f)

CregToken(d) == <<"C", "R", "E", "G", ":", " ">> \o <<Digits[d + 1]>> \o <<",", "1">>

RegistrationUnknown(status) == "unknown"

\* lines 347-392: the chain of indexOf tests, in the order of the code
RegistrationStatusOf(status) ==
    IF IndexOf(status, CregToken(0)) > -1 THEN "notRegistrerAndNotSearching"
    ELSE IF IndexOf(status, CregToken(1)) > -1 THEN "registrerHomeNetwork"
    ELSE IF IndexOf(status, CregToken(2)) > -1 THEN "notRegistrerAndSearching"
    ELSE IF IndexOf(status, CregToken(3)) > -1 THEN "registerDenied"
    ELSE IF IndexOf(status, CregToken(4)) > -1 THEN "unknown"
    ELSE IF IndexOf(status, CregToken(5)) > -1 THEN "registerRoaming"
    ELSE IF IndexOf(status, CregToken(6)) > -1 THEN "registerSmsOnlyHomeNetwork"
    ELSE IF IndexOf(status, CregToken(7)) > -1 THEN "registerSmsOnlyRoaming"
    ELSE IF IndexOf(status, CregToken(8)) > -1 THEN "registeredForEmergencyService"
    ELSE IF IndexOf(status, CregToken(9)) > -1
         THEN "registeredForCSFBNotPreferedHomeNetwork"
    ELSE IF IndexOf(status, CregToken(9)) > -1
         THEN "registeredForCSFBNotPreferedRoaming"
    ELSE "unknown"

\* what the parsers leave alone
ParseKeep == UNCHANGED <<started, isBusy, _sleepMode, _functionalityMode,
                         onNewMessage, onStatusReport, pc, rx, emitted, newMsgs,
                         statusReports, scanVars, readerVars>>

\* registrationStatus(), lines 341-393
RegistrationStatus(c) ==
    /\ CanEnter(c)
    /\ Enter(c, "registrationStatus", <<>>)
    /\ tx' = Written(c, "AT+CREG ?", <<>>)
    /\ buf' = [buf EXCEPT ![c] = NextRead(feed)]
    /\ feed' = RestFeed(feed)
    /\ reads' = [reads EXCEPT ![c] = 1]
    /\ eret' = RegistrationStatusOf(NextRead(feed))
    /\ UNCHANGED <<ret, sret, rtc, _buffer, _locationCode, _longitude, _latitude>>
    /\ ParseKeep

\* replies to AT+CREG?: one status token each, an unknown one, two, none
CregReply(d, stat) == CRLF \o <<"+", "C", "R", "E", "G", ":", " ">> \o <<Digits[d + 1], ",",
        Digits[stat + 1]>> \o CRLF
CregReplies ==
    {CregReply(d, 1) \o CRLF \o OKr : d \in 0..9}
    \cup {CregReply(0, 5) \o CRLF \o OKr, CregReply(3, 1) \o CregReply(1, 1),
          <<CR, LF, "+", "C", "R", "E", "G", ":", " ", "1", "0", ",", "1", CR, LF>>, ERRORr, <<>>}

SetMax(S) == CHOOSE m \in S : \A k \in S : m >= k

\* String::lastIndexOf(pattern): the last 0-based index where pattern occurs
LastIndexOf(s, pat) ==
    LET hits == {i \in 0..(Len(s) - Len(pat)) :
                    \A k \in 1..Len(pat) : s[i + k] = pat[k]}
    IN IF hits = {} THEN -1 ELSE SetMax(hits)

Quote == <<"\"">>

OperatorTextWithQuotes(operatorName) ==
    Substring(operatorName, IndexOf(operatorName, Quote),
              LastIndexOf(operatorName, Quote) + 1)

\* line 320: operatorName.substring(indexOfQuote+1, lastIndexOfQuote)
OperatorText(operatorName) ==
    Substring(operatorName, IndexOf(operatorName, Quote) + 1,
              LastIndexOf(operatorName, Quote))

\* lines 313-318: a quote is found and the last quote lies after the first
TwoQuotes(operatorName) ==
    /\ IndexOf(operatorName, Quote) # -1
    /\ LastIndexOf(operatorName, Quote) # IndexOf(operatorName, Quote)
    /\ IndexOf(operatorName, Quote) < LastIndexOf(operatorName, Quote)

\* lines 306-325 on the buffers f the reads return: the value returned and the
\* number of reads made
GetOperatorResult(f) ==
    LET operatorName == NextRead(f)
    IN IF IndexOf(operatorName, <<"+", "C", "O", "P", "S", ":">>) = -1
       THEN [value |-> <<"U", "n", "k", "n", "o", "w", "n">>, reads |-> 1]
       ELSE IF TwoQuotes(operatorName)
       THEN [value |-> OperatorText(operatorName), reads |-> 1]
       ELSE [value |-> NextRead(RestFeed(f)), reads |-> 2]

\* getOperator(), lines 301-327
GetOperator(c) ==
    /\ CanEnter(c)
    /\ Enter(c, "getOperator", <<>>)
    /\ tx' = Written(c, "AT+COPS ?", <<>>)
    /\ buf' = [buf EXCEPT ![c] = NextRead(feed)]
    /\ reads' = [reads EXCEPT ![c] = GetOperatorResult(feed).reads]
    /\ feed' = IF GetOperatorResult(feed).reads = 1 THEN RestFeed(feed)
               ELSE RestFeed(RestFeed(feed))
    /\ sret' = GetOperatorResult(feed).value
    /\ UNCHANGED <<ret, eret, rtc, _buffer, _locationCode, _longitude, _latitude>>
    /\ ParseKeep

\* replies to AT+COPS?: a quoted name, no quote, one quote, three quotes, an
\* empty name, a quoted name without "+COPS:", an error, nothing
CopsReplies ==
    {<<CR, LF, "+", "C", "O", "P", "S", ":", " ", "0", ",", "0", ",", "\"", "O", "p", "\"", CR, LF,
            CR, LF, "O", "K", CR, LF>>, <<CR, LF, "+", "C", "O", "P", "S", ":", " ", "0", CR, LF,
                    CR, LF, "O", "K", CR, LF>>,
     <<CR, LF, "+", "C", "O", "P", "S", ":", " ", "0", ",", "0", ",", "\"", "O", "p", CR, LF>>,
             <<"+", "C", "O", "P", "S", ":", " ", "0", ",", "0", ",", "\"", "A", "\"", "B", "\"",
                     CR, LF>>,
     <<"+", "C", "O", "P", "S", ":", " ", "0", ",", "0", ",", "\"", "\"", CR, LF>>, <<CR, LF, "\"",
             "O", "p", "\"", CR, LF>>, ERRORr, <<>>}

ByteWrap == 256

\* an int stored in a uint8_t (indexOne, indexTwo, first, second)
U8(x) == x % ByteWrap

\* an int passed as unsigned int (the arguments of String::substring)
Unsigned(x) == x % UIntWrap

\* lines 424-437: the three fields cut out of data
LocationFields(data) ==
    LET one1 == U8(IndexOf(data, <<":">>) + 1)
        two1 == U8(IndexOf(data, <<",">>))
        one2 == U8(IndexOf(data, <<",">>) + 1)
        two2 == U8(IndexOfFrom(data, <<",">>, one2))
        one3 == U8(IndexOfFrom(data, <<",">>, two2) + 1)
        two3 == U8(IndexOfFrom(data, <<",">>, one3))
    IN [code |-> Substring(data, one1, two1),
        longitude |-> Substring(data, one2, two2),
        latitude |-> Substring(data, one3, two3)]

\* calculateLocation(), lines 396-441
CalculateLocation(c) ==
    /\ CanEnter(c)
    /\ Enter(c, "calculateLocation", <<>>)
    /\ tx' = Written(c, "AT+CIPGSMLOC=1,1", <<>>)
    /\ buf' = [buf EXCEPT ![c] = NextRead(feed)]
    /\ feed' = RestFeed(feed)
    /\ reads' = [reads EXCEPT ![c] = 1]
    /\ IF IndexOf(NextRead(feed), <<"E", "R">>) # -1
       THEN /\ ret' = [ret EXCEPT ![c] = 0]
            /\ UNCHANGED <<_locationCode, _longitude, _latitude>>
       ELSE /\ _locationCode' = LocationFields(NextRead(feed)).code
            /\ _longitude' = LocationFields(NextRead(feed)).longitude
            /\ _latitude' = LocationFields(NextRead(feed)).latitude
            /\ ret' = [ret EXCEPT ![c] = 1]
    /\ UNCHANGED <<sret, eret, rtc, _buffer>>
    /\ ParseKeep

SampleLocationReply == <<"+", "C", "I", "P", "G", "S", "M", "L", "O", "C", ":", " ", "0", ",", "-",
        "5", "8", ".", "1", "2", "3", "4", "5", "6", ",", "-", "3", "4", ".", "6", "5", "4", "3",
                "2", "1", ",", "2", "0", "2", "4", "/", "0", "1", "/", "0", "1", ",", "0", "0",
                        ":", "0", "0", ":", "0", "0">>

\* replies to AT+CIPGSMLOC=1,1: the sample fix, a second fix, a failure code
\* without fields, an error, nothing
LocationReplies ==
    {SampleLocationReply, <<CR, LF, "+", "C", "I", "P", "G", "S", "M", "L", "O", "C", ":", " ",
            "0", ",", "1", ".", "5", ",", "2", ".", "5", ",", "d", ",", "t", CR, LF, CR, LF, "O",
                    "K", CR, LF>>,
     <<CR, LF, "+", "C", "I", "P", "G", "S", "M", "L", "O", "C", ":", " ", "6", "0", "1", CR, LF,
             CR, LF, "O", "K", CR, LF>>, ERRORr, <<>>}

\* lines 899-902: the body cut out of the buffer of the 10 s read
SmsBody(b) ==
    LET first == U8(IndexOfFrom(b, <<LF>>, 2) + 1)
        second == U8(IndexOfFrom(b, <<LF>>, first))
    IN Substring(b, first, second)

\* lines 882-902 on the buffers f the reads return: the value returned, the
\* number of reads made and the last buffer stored in _buffer
ReadSmsResult(f) ==
    LET r0 == NextRead(f)
        r1 == NextRead(RestFeed(f))
        r2 == NextRead(RestFeed(RestFeed(f)))
    IN IF IndexOf(r0, <<"E", "R">>) # -1
       THEN [value |-> <<>>, reads |-> 1, buffer |-> _buffer]
       ELSE IF IndexOf(r1, <<"C", "M", "G", "R", "=">>) = -1
       THEN [value |-> <<>>, reads |-> 2, buffer |-> r1]
       ELSE [value |-> SmsBody(r2), reads |-> 3, buffer |-> r2]

RECURSIVE DropReads(_, _)
DropReads(f, n) == IF n = 0 THEN f ELSE DropReads(RestFeed(f), n - 1)

\* readSms(index), lines 878-903
ReadSms(c, index) ==
    /\ CanEnter(c)
    /\ Enter(c, "readSms", <<index>>)
    /\ tx' = IF ReadSmsResult(feed).reads = 1 THEN tx
             ELSE Written(c, "AT+CMGR=", <<index>>)
    /\ buf' = [buf EXCEPT ![c] = NextRead(feed)]
    /\ reads' = [reads EXCEPT ![c] = ReadSmsResult(feed).reads]
    /\ feed' = DropReads(feed, ReadSmsResult(feed).reads)
    /\ _buffer' = ReadSmsResult(feed).buffer
    /\ sret' = ReadSmsResult(feed).value
    /\ UNCHANGED <<ret, eret, rtc, _locationCode, _longitude, _latitude>>
    /\ ParseKeep

\* the modem's answer to AT+CMGR=1: the echo, the header line, the body, OK
SmsEcho == <<"A", "T", "+", "C", "M", "G", "R", "=", "1", CR>>
SmsText == <<"B", "o", "d", "y">>
SmsAnswer == <<CR, LF, "+", "C", "M", "G", "R", ":", " ", "h", CR,
        LF>> \o SmsText \o CRLF \o CRLF \o OKr
SmsReply == SmsEcho \o SmsAnswer

\* an answer whose body line ends beyond index 255
LongAnswer == <<CR, LF, "+", "C", "M", "G", "R", ":", " ", "h", CR, LF>> \o CharRep("x",
        MaxBody) \o CRLF \o CRLF \o OKr

\* an answer whose second line names the sender, as getNumberSms expects it
NumberAnswer == <<CR, LF, "+", "C", "M", "G", "R", ":", " ", "h", CR, LF, "+", "C", "M", "G", "R",
        ":", " ", "\"", "R", "\"", ",", "\"", "+", "4", "9", "\"", ",", "\"", "\"", ",", CR, LF>>

\* lines 866-875: the sender's number cut out of what readSms returned
NumberOf(b) ==
    IF Len(b) > 10
    THEN LET idx0 == U8(IndexOf(b, <<"+", "C", "M", "G", "R", ":">>))
             idx1 == U8(IndexOfFrom(b, <<"\"", ",", "\"">>, idx0 + 1))
         IN Substring(b, idx1 + 3, Unsigned(IndexOfFrom(b, <<"\"", ",", "\"">>, idx1 + 4)))
    ELSE <<>>

\* getNumberSms(index), lines 862-876: readSms(index), then the slice
GetNumberSms(c, index) ==
    /\ CanEnter(c)
    /\ Enter(c, "getNumberSms", <<index>>)
    /\ tx' = IF ReadSmsResult(feed).reads = 1 THEN tx
             ELSE Written(c, "AT+CMGR=", <<index>>)
    /\ buf' = [buf EXCEPT ![c] = NextRead(feed)]
    /\ reads' = [reads EXCEPT ![c] = ReadSmsResult(feed).reads]
    /\ feed' = DropReads(feed, ReadSmsResult(feed).reads)
    /\ _buffer' = ReadSmsResult(feed).value
    /\ sret' = NumberOf(ReadSmsResult(feed).value)
    /\ UNCHANGED <<ret, eret, rtc, _locationCode, _longitude, _latitude>>
    /\ ParseKeep

\* the answer cut at every byte between the read after the command and the
\* 10 s read; nothing arrives before the command is written
SmsFeeds ==
    {<<<<>>, SubSeq(SmsReply, 1, k), SubSeq(SmsReply, k + 1, Len(SmsReply))>> :
        k \in 0..Len(SmsReply)}
    \cup {<<ERRORr>>, <<<<>>, SmsAnswer, <<>>>>, <<<<>>, SmsEcho, LongAnswer>>,
          <<<<>>, SmsEcho, NumberAnswer>>}

ParseFeeds ==
    {<<r>> : r \in CregReplies}
    \cup {<<r, s>> : r \in CopsReplies, s \in {<<>>, OKr}}
    \cup {<<r>> : r \in LocationReplies}
    \cup {<<r, s>> : r \in LocationReplies, s \in LocationReplies}
    \cup SmsFeeds

\* after begin(): the modem's coming answers are fixed, no operation has run
InitParse ==
    /\ InitIdleCallers
    /\ InitIdleReader
    /\ InitIdleScan
    /\ started = TRUE
    /\ isBusy = FALSE
    /\ _sleepMode = FALSE
    /\ _functionalityMode = 1
    /\ _buffer = <<>>
    /\ onNewMessage = TRUE
    /\ onStatusReport = TRUE
    /\ rx = <<>>
    /\ tx = <<>>
    /\ emitted = <<>>
    /\ newMsgs = <<>>
    /\ statusReports = <<>>
    /\ _locationCode = <<>>
    /\ _longitude = <<>>
    /\ _latitude = <<>>
    /\ sret = <<>>
    /\ eret = "none"
    /\ rtc = <<0, 0, 0, 0, 0, 0>>
    /\ feed \in ParseFeeds

NextParse ==
    \/ \E c \in Callers : RegistrationStatus(c)
    \/ \E c \in Callers : GetOperator(c)
    \/ \E c \in Callers : CalculateLocation(c)
    \/ \E c \in Callers : ReadSms(c, 1)
    \/ \E c \in Callers : GetNumberSms(c, 1)

SpecParse == InitParse /\ [][NextParse]_vars

----------------------------------------------------------------------------
(* Claims about the reply parsers *)

\* the status codes d of 0..9 whose token "CREG: d,1" occurs in reply b
KnownCodes(b) == {d \in 0..9 : Contains(b, CregToken(d))}

\* the enumeration value the status table assigns to code d
StatusTable(d) ==
    CASE d = 0 -> "notRegistrerAndNotSearching"
      [] d = 1 -> "registrerHomeNetwork"
      [] d = 2 -> "notRegistrerAndSearching"
      [] d = 3 -> "registerDenied"
      [] d = 4 -> "unknown"
      [] d = 5 -> "registerRoaming"
      [] d = 6 -> "registerSmsOnlyHomeNetwork"
      [] d = 7 -> "registerSmsOnlyRoaming"
      [] d = 8 -> "registeredForEmergencyService"
      [] d = 9 -> "registeredForCSFBNotPreferedHomeNetwork"

LastOp(c, name) == op[c].name = name /\ ncalls[c] = 1 /\ TotalCalls = 1

\* C12: a registration reply with exactly one known token "CREG: d,1", d in
\* 0..9, makes registrationStatus return the table's value for d; a reply with
\* no known token, the empty buffer of a timeout included, makes it return unknown.
C12_RegistrationStatusFollowsTable ==
    \A c \in Callers :
        LastOp(c, "registrationStatus") =>
            /\ \A d \in 0..9 : KnownCodes(buf[c]) = {d} => eret = StatusTable(d)
            /\ KnownCodes(buf[c]) = {} => eret = "unknown"

\* C12's case: the reply "+CREG: 9,1" was classified as CSFB home network
C12_Witness ==
    \E c \in Callers :
        /\ LastOp(c, "registrationStatus")
        /\ KnownCodes(buf[c]) = {9}
        /\ eret = "registeredForCSFBNotPreferedHomeNetwork"

QuoteCount(b) == Cardinality({i \in 1..Len(b) : b[i] = "\""})

\* the text between the two quotes of a reply that holds exactly two
Quoted(b) == Substring(b, IndexOf(b, Quote) + 1, LastIndexOf(b, Quote))

GetOperatorStep(c) == Entered(c) /\ op'[c].name = "getOperator"

\* C13 (as claimed): a reply with two quotes and text between them makes
\* getOperator return that text; a reply with no quote or one quote makes it
\* return what the secondary read returns.
C13_QuotedTextOrSecondaryRead ==
    [][\A c \in Callers :
          GetOperatorStep(c) =>
              LET reply == NextRead(feed)
              IN /\ (QuoteCount(reply) = 2 /\ Quoted(reply) # <<>>)
                        => sret' = Quoted(reply)
                 /\ QuoteCount(reply) <= 1
                        => sret' = NextRead(RestFeed(feed))]_vars

\* C13 (amended): the rule applies to replies that hold "+COPS:"; any reply
\* without "+COPS:", the empty buffer of a timeout included, makes getOperator
\* return "Unknown" after its first read, and no secondary read is made.
C13_QuotedTextAfterCops ==
    [][\A c \in Callers :
          GetOperatorStep(c) =>
              LET reply == NextRead(feed)
              IN IF Contains(reply, <<"+", "C", "O", "P", "S", ":">>)
                 THEN /\ (QuoteCount(reply) = 2 /\ Quoted(reply) # <<>>)
                             => (sret' = Quoted(reply) /\ reads'[c] = 1)
                      /\ QuoteCount(reply) <= 1
                             => /\ sret' = NextRead(RestFeed(feed))
                                /\ reads'[c] = 2
                                /\ feed' = RestFeed(RestFeed(feed))
                 ELSE /\ sret' = <<"U", "n", "k", "n", "o", "w", "n">>
                      /\ reads'[c] = 1
                      /\ feed' = RestFeed(feed)]_vars

\* C13's case: a "+COPS:" reply without quotes has made getOperator return the
\* "OK" of its secondary read
C13_Witness ==
    \E c \in Callers :
        /\ LastOp(c, "getOperator")
        /\ Contains(buf[c], <<"+", "C", "O", "P", "S", ":">>)
        /\ QuoteCount(buf[c]) = 0
        /\ reads[c] = 2
        /\ sret = OKr

\* C14 (as claimed): for the reply
\* "+CIPGSMLOC: 0,-58.123456,-34.654321,2024/01/01,00:00:00" calculateLocation
\* returns true and leaves "0" as location code, "-58.123456" as longitude and
\* "-34.654321" as latitude.
C14_SampleReplyFields ==
    \A c \in Callers :
        (LastOp(c, "calculateLocation") /\ buf[c] = SampleLocationReply) =>
            /\ ret[c] = 1
            /\ _locationCode = <<"0">>
            /\ _longitude = <<"-", "5", "8", ".", "1", "2", "3", "4", "5", "6">>
            /\ _latitude = <<"-", "3", "4", ".", "6", "5", "4", "3", "2", "1">>

\* C15 (as claimed): when the reply holds "ER" or nothing arrives before the
\* deadline, calculateLocation returns false and the three location fields
\* keep their prior values.
C15_FieldsKeptWithoutReply ==
    [][\A c \in Callers :
          (/\ Entered(c)
           /\ op'[c].name = "calculateLocation"
           /\ (Contains(NextRead(feed), <<"E", "R">>) \/ NextRead(feed) = <<>>))
          => /\ ret'[c] = 0
             /\ _locationCode' = _locationCode
             /\ _longitude' = _longitude
             /\ _latitude' = _latitude]_vars

----------------------------------------------------------------------------
(* Termination of the scan *)

\* the +CMT: loop is in a state it cannot leave: its condition holds and an
\* iteration changes none of the variables the condition and the body read
LoopStuck ==
    /\ dpc = "cmt"
    /\ indexOfCMT # -1
    /\ LET n == CmtPass(_buffer,
                        [idx |-> indexOfCMT, fih |-> firstIndexHandle,
                         lih |-> lastIndexHandle, calls |-> <<>>],
                        onNewMessage)
       IN <<n.idx, n.fih, n.lih>> = <<indexOfCMT, firstIndexHandle, lastIndexHandle>>

\* C16 (as claimed): checkForGsmMessage returns for every buffer, a buffer with
\* "+CMT:" and fewer than two line breaks after it or with an empty payload
\* line included: the +CMT: loop never reaches a state it repeats for ever.
C16_ScanLoopNeverStuck == ~LoopStuck

----------------------------------------------------------------------------
(* Commands and their replies: callNumber, RTCtime and setSleepMode against *)
(* a modem that echoes each command and answers it before any deadline      *)

\* the echo of a command, one atom that names it
Echo(cmd) == <<"<echo " \o cmd.text \o ">">>

ClockAnswer == <<CR, LF, "+", "C", "C", "L", "K", ":", " ", "\"", "2", "4", "/", "0", "1", "/",
        "0", "2", ",", "0", "3", ":", "0", "4", ":", "0", "5", "+", "0", "0", "\"", CR, LF, CR, LF>>

\* what the modem sends for command cmd: its echo, then the result
Answer(cmd, ok) ==
    Echo(cmd) \o (IF ~ok THEN ERRORr
                  ELSE IF cmd.text = "at+cclk?" THEN ClockAnswer \o OKr
                  ELSE OKr)

\* every command written so far has been answered
Answered == Len(emitted) = Len(tx)

\* the modem answers the oldest command it has not answered yet
ModemAnswer ==
    /\ started
    /\ ~Answered
    /\ \E ok \in BOOLEAN :
          /\ rx' = rx \o Answer(tx[Len(emitted) + 1], ok)
          /\ emitted' = Append(emitted, IF ok THEN "OK" ELSE "ERROR")
    /\ UNCHANGED <<engineVars, callerVars, tx, newMsgs, statusReports>>
    /\ ScanIdle

\* callNumber(number), lines 567-572: three writes, no read
CallNumber(c) ==
    /\ CanEnter(c)
    /\ Enter(c, "callNumber", <<>>)
    /\ tx' = Written(c, "ATD", <<>>)
    /\ UNCHANGED <<engineVars, pc, ret, buf, reads, rx, emitted, newMsgs, statusReports>>
    /\ ScanIdle

\* lines 936-942: the text between the quotes less its last character, and the
\* six numbers read from it
ClockText(b) ==
    Substring(b, Unsigned(IndexOf(b, Quote) + 1), Unsigned(LastIndexOf(b, Quote) - 1))

ClockFields(t) ==
    <<ToInt(Substring(t, 6, 8)), ToInt(Substring(t, 3, 5)), ToInt(Substring(t, 0, 2)),
      ToInt(Substring(t, 9, 11)), ToInt(Substring(t, 12, 14)), ToInt(Substring(t, 15, 17))>>

\* RTCtime(...), line 926: the query is written
RTCtimeEnter(c) ==
    /\ CanEnter(c)
    /\ Enter(c, "RTCtime", <<>>)
    /\ tx' = Written(c, "at+cclk?", <<>>)
    /\ buf' = [buf EXCEPT ![c] = <<>>]
    /\ reads' = [reads EXCEPT ![c] = 0]
    /\ pc' = [pc EXCEPT ![c] = "rtc_r"]
    /\ UNCHANGED <<engineVars, ret, rx, emitted, newMsgs, statusReports>>
    /\ ScanIdle

\* lines 928-943: the read; on "ERR" the query is written again and nothing is
\* read; otherwise the fields are taken from the buffer
RTCtimeRead(c) ==
    /\ pc[c] = "rtc_r"
    /\ rx' = <<>>
    /\ reads' = [reads EXCEPT ![c] = @ + 1]
    /\ buf' = [buf EXCEPT ![c] = rx]
    /\ pc' = [pc EXCEPT ![c] = "idle"]
    /\ IF IndexOf(rx, <<"E", "R", "R">>) # -1
       THEN /\ tx' = Written(c, "at+cclk?", <<>>)
            /\ _buffer' = rx
            /\ UNCHANGED rtc
       ELSE /\ _buffer' = ClockText(rx)
            /\ rtc' = ClockFields(ClockText(rx))
            /\ UNCHANGED tx
    /\ UNCHANGED <<started, isBusy, _sleepMode, _functionalityMode, onNewMessage,
                   onStatusReport, op, ret, ncalls, saved, emitted, newMsgs,
                   statusReports, scanVars, readerVars, _locationCode, _longitude,
                   _latitude, sret, eret, feed>>

\* a read returns once the modem has answered what was written
NextReply ==
    \/ Begin
    \/ BeginBaud
    \/ ModemAnswer
    \/ \E c \in Callers : CallNumber(c)
    \/ \E c \in Callers : RTCtimeEnter(c)
    \/ \E c \in Callers : Answered /\ RTCtimeRead(c)
    \/ \E c \in Callers, state \in BOOLEAN : SetSleepModeEnter(c, state)
    \/ \E c \in Callers : Answered /\ SetSleepModeRead(c)

SpecReply == Init /\ [][NextReply]_vars

\* C17 (as claimed): when an operation returns, every command it wrote has
\* been answered and the answer has been read: nothing of it is left in the
\* transport for the next operation's read.
C17_NoReplyLeftAtReturn ==
    [][\A c \in Callers :
          (Returned(c) /\ \A d \in Callers \ {c} : ncalls'[d] = 0)
          => (rx' = <<>> /\ Len(emitted') = Len(tx'))]_vars

----------------------------------------------------------------------------
(* readSms and the split of the modem's answer across its reads *)

\* the answer's echo alone in the read after the command, the rest in the 10 s read
EchoThenRest == <<<<>>, SmsEcho, SmsAnswer>>
\* the whole answer drained by the read after the command
WholeAtOnce == <<<<>>, SmsReply, <<>>>>

\* C18 (as claimed): readSms(index) returns the message body of a well-formed
\* answer (echo, +CMGR header line, body line, OK) whether the echo arrives alone
\* in the read after the command and the rest in the 10 s read, or the whole
\* answer is drained by the read after the command.  (The body line is taken
\* with or without the CR that ends it.)
C18_BodyWhateverTheSplit ==
    [][\A c \in Callers :
          (Entered(c) /\ op'[c].name = "readSms" /\ feed \in {EchoThenRest, WholeAtOnce})
          => sret' \in {SmsText, SmsText \o <<CR>>}]_vars

----------------------------------------------------------------------------
(* The order of an accepted PDU submission *)

Wrote(c, text, arg) == tx' = Append(tx, [by |-> c, text |-> text, arg |-> arg])

Moved(c) == pc'[c] # pc[c]

\* C19: an accepted sendSms(pdu) sets isBusy and writes the header with the
\* length, then reads, writes the PDU, reads, writes 0x1A, reads and returns:
\* these three writes in this order, one read after each, nothing else written
\* in between, and isBusy true from the header until the third read has returned.
C19_SubmissionOrder ==
    [][\A c \in Callers :
          /\ (Entered(c) /\ op'[c].name = "sendSms" /\ pc'[c] # "idle")
                => /\ pc'[c] = "sms_r1"
                   /\ isBusy'
                   /\ reads'[c] = 0
                   /\ Wrote(c, "AT+CMGS=", <<(Len(op'[c].arg) \div 2) - 1>>)
          /\ (pc[c] = "sms_r1" /\ Moved(c))
                => /\ pc'[c] = "sms_r2"
                   /\ isBusy /\ isBusy'
                   /\ reads'[c] = 1
                   /\ Wrote(c, "pdu", op[c].arg)
          /\ (pc[c] = "sms_r2" /\ Moved(c))
                => /\ pc'[c] = "sms_r3"
                   /\ isBusy /\ isBusy'
                   /\ reads'[c] = 2
                   /\ Wrote(c, "0x1A", <<>>)
          /\ (pc[c] = "sms_r3" /\ Moved(c))
                => /\ pc'[c] = "idle"
                   /\ isBusy
                   /\ reads'[c] = 3
                   /\ tx' = tx
          /\ (pc[c] \in SmsPcs /\ ~Moved(c))
                => (isBusy' /\ tx' = tx /\ reads'[c] = reads[c])]_vars

\* C19's case: a submission has run to its end: header, PDU and terminator are
\* the three writes made, three reads were done and the guard is free again.
C19_Witness ==
    \E c \in Callers :
        /\ op[c].name = "sendSms"
        /\ pc[c] = "idle"
        /\ reads[c] = 3
        /\ Len(tx) = 3
        /\ <<tx[1].text, tx[2].text, tx[3].text>> = <<"AT+CMGS=", "pdu", "0x1A">>
        /\ \A i \in 1..3 : tx[i].by = c
        /\ ~isBusy

----------------------------------------------------------------------------
(* The text-mode submission sendSms(number, text), which takes no guard *)

TextPcs == {"txt_r1", "txt_r2", "txt_r3", "txt_r4"}

\* lines 657-658: AT+CMGF=1 is written
SendSmsTextEnter(c) ==
    /\ CanEnter(c)
    /\ Enter(c, "sendSmsText", <<>>)
    /\ tx' = Written(c, "AT+CMGF=1", <<>>)
    /\ buf' = [buf EXCEPT ![c] = <<>>]
    /\ reads' = [reads EXCEPT ![c] = 0]
    /\ pc' = [pc EXCEPT ![c] = "txt_r1"]
    /\ UNCHANGED <<engineVars, ret, rx, emitted, newMsgs, statusReports>>
    /\ ScanIdle

\* a read into _buffer followed by the next write: lines 658-661, 662-664, 665-666
SendSmsTextStage(c, at, text, next) ==
    /\ pc[c] = at
    /\ _buffer' = rx
    /\ rx' = <<>>
    /\ reads' = [reads EXCEPT ![c] = @ + 1]
    /\ tx' = Written(c, text, <<>>)
    /\ pc' = [pc EXCEPT ![c] = next]
    /\ UNCHANGED <<started, isBusy, _sleepMode, _functionalityMode, onNewMessage,
                   onStatusReport, op, ret, buf, ncalls, saved, emitted, newMsgs,
                   statusReports>>
    /\ ScanIdle

SendSmsTextRead1(c) == SendSmsTextStage(c, "txt_r1", "AT+CMGS=\"number\"", "txt_r2")
SendSmsTextRead2(c) == SendSmsTextStage(c, "txt_r2", "text", "txt_r3")
SendSmsTextRead3(c) == SendSmsTextStage(c, "txt_r3", "26", "txt_r4")

\* the mapping of the PDU submission: "CMGS" present is the good case
TextResultAsPdu(b) == IndexOf(b, <<"C", "M", "G", "S">>) # -1

\* lines 670-676: true on "ER", false on "CMGS", true otherwise
TextResult(b) ==
    IF IndexOf(b, <<"E", "R">>) # -1 THEN TRUE
    ELSE IF IndexOf(b, <<"C", "M", "G", "S">>) # -1 THEN FALSE
    ELSE TRUE

\* lines 667-676: the 60 s read and the result
SendSmsTextRead4(c) ==
    /\ pc[c] = "txt_r4"
    /\ _buffer' = rx
    /\ rx' = <<>>
    /\ reads' = [reads EXCEPT ![c] = @ + 1]
    /\ ret' = [ret EXCEPT ![c] = BoolInt(TextResult(rx))]
    /\ pc' = [pc EXCEPT ![c] = "idle"]
    /\ UNCHANGED <<started, isBusy, _sleepMode, _functionalityMode, onNewMessage,
                   onStatusReport, op, buf, ncalls, saved, tx, emitted, newMsgs,
                   statusReports>>
    /\ ScanIdle

\* both submissions, from both callers, with start-up and the modem
NextGuard ==
    \/ NextSubmit
    \/ \E c \in Callers : SendSmsTextEnter(c)
    \/ \E c \in Callers : SendSmsTextRead1(c)
    \/ \E c \in Callers : SendSmsTextRead2(c)
    \/ \E c \in Callers : SendSmsTextRead3(c)
    \/ \E c \in Callers : SendSmsTextRead4(c)

SpecGuard == Init /\ [][NextGuard]_vars

\* C20 (as claimed): no operation but sendSms(pdu) tests or changes isBusy, so
\* once the engine is started isBusy is true only while a sendSms(pdu) is between
\* taking the guard and returning; sendSms(number, text) is never turned away
\* and leaves isBusy as it was.
C20_BusyOnlyDuringPduSubmission ==
    started => (isBusy => \E c \in Callers : pc[c] \in SmsPcs)

\* the steps of sendSms(number, text) leave isBusy alone, whatever its value
TextSubmissionKeepsGuard ==
    [][\A c \in Callers :
          (pc[c] \in TextPcs \/ pc'[c] \in TextPcs) /\ Moved(c) => isBusy' = isBusy]_vars

----------------------------------------------------------------------------
(* The result of the text-mode submission *)

\* the text-mode submission alone, from both callers, with start-up and the modem
NextText ==
    \/ Begin
    \/ BeginBaud
    \/ ModemEmit
    \/ \E c \in Callers : SendSmsTextEnter(c)
    \/ \E c \in Callers : SendSmsTextRead1(c)
    \/ \E c \in Callers : SendSmsTextRead2(c)
    \/ \E c \in Callers : SendSmsTextRead3(c)
    \/ \E c \in Callers : SendSmsTextRead4(c)

SpecText == Init /\ [][NextText]_vars

\* C21: sendSms(number, text) returns false exactly when the buffer of its
\* final read holds "CMGS" and does not hold "ER"; it returns true in every
\* other case, the empty buffer of a timeout included.
C21_TextResultMapping ==
    [][\A c \in Callers :
          (pc[c] = "txt_r4" /\ Moved(c))
          => /\ pc'[c] = "idle"
             /\ ret'[c] \in {0, 1}
             /\ ret'[c] = 0 <=> (Contains(rx, <<"C", "M", "G", "S">>) /\ ~Contains(rx, <<"E",
                     "R">>))]_vars

\* C21's case: a text-mode submission whose final buffer held "CMGS" and no
\* "ER" has returned false
C21_Witness ==
    \E c \in Callers :
        /\ op[c].name = "sendSmsText"
        /\ pc[c] = "idle"
        /\ reads[c] = 4
        /\ TotalCalls = 1
        /\ Contains(_buffer, <<"C", "M", "G", "S">>)
        /\ ~Contains(_buffer, <<"E", "R">>)
        /\ ret[c] = 0

----------------------------------------------------------------------------
(* The guard after start-up *)

\* C22 (as claimed): after begin() or begin(baud), before any submission,
\* isBusy is false, and the first sendSms with a PDU of valid length is
\* accepted: it is not turned away with -4.
C22_GuardFreeAfterStartUp ==
    [][/\ (started' /\ TotalCalls' = 0) => ~isBusy'
       /\ \A c \in Callers :
             (/\ Entered(c)
              /\ TotalCalls = 0
              /\ op'[c].name = "sendSms"
              /\ (Len(op'[c].arg) \div 2) - 1 >= 10)
             => (pc'[c] = "sms_r1" /\ ret'[c] # -4)]_vars

----------------------------------------------------------------------------
(* The values registrationStatus can return *)

\* the enumerators named in the returns of lines 349-392
RegistrationValues ==
    {"notRegistrerAndNotSearching", "registrerHomeNetwork", "notRegistrerAndSearching",
     "registerDenied", "unknown", "registerRoaming", "registerSmsOnlyHomeNetwork",
     "registerSmsOnlyRoaming", "registeredForEmergencyService",
     "registeredForCSFBNotPreferedHomeNetwork", "registeredForCSFBNotPreferedRoaming"}

\* C23 (as claimed): every value of the enumeration, the CSFB roaming value
\* included, is what registrationStatus of a started engine returns for at least
\* one reply: no branch of the scan is unreachable.
C23_EveryStatusReturned ==
    started =>
        \A v \in RegistrationValues :
            \E f \in ParseFeeds : RegistrationStatusOf(NextRead(f)) = v

\* whatever the reply, registrationStatus does not return the CSFB roaming value
CsfbRoamingNeverReturned == eret # "registeredForCSFBNotPreferedRoaming"

----------------------------------------------------------------------------
(* The 8-bit index variables *)

\* lines 899-902 with first and second as unbounded integers
SmsBodyWide(b) ==
    LET first == IndexOfFrom(b, <<LF>>, 2) + 1
        second == IndexOfFrom(b, <<LF>>, first)
    IN Substring(b, first, Unsigned(second))

\* lines 424-437 with indexOne and indexTwo as unbounded integers
LocationFieldsWide(data) ==
    LET one1 == IndexOf(data, <<":">>) + 1
        two1 == IndexOf(data, <<",">>)
        one2 == IndexOf(data, <<",">>) + 1
        two2 == IndexOfFrom(data, <<",">>, one2)
        one3 == IndexOfFrom(data, <<",">>, Unsigned(two2)) + 1
        two3 == IndexOfFrom(data, <<",">>, one3)
    IN [code |-> Substring(data, one1, Unsigned(two1)),
        longitude |-> Substring(data, one2, Unsigned(two2)),
        latitude |-> Substring(data, one3, Unsigned(two3))]

\* C24 (as claimed): the 8-bit index variables do not change a result: what
\* readSms returns and what calculateLocation stores are the slices computed
\* with unbounded integer indices, for every buffer, one with a delimiter at
\* index 255 or beyond or with no delimiter included.
C24_NarrowIndicesHarmless ==
    [][\A c \in Callers :
          /\ (Entered(c) /\ op'[c].name = "readSms" /\ reads'[c] = 3)
                => sret' = SmsBodyWide(NextRead(RestFeed(RestFeed(feed))))
          /\ (Entered(c) /\ op'[c].name = "calculateLocation" /\ ret'[c] = 1)
                => <<_locationCode', _longitude', _latitude'>>
                   = <<LocationFieldsWide(NextRead(feed)).code,
                       LocationFieldsWide(NextRead(feed)).longitude,
                       LocationFieldsWide(NextRead(feed)).latitude>>]_vars

====
